---- MODULE Spec2Model ----
(***************************************************************************)
(* A model of aplus/__init__.py: the Promise state machine, its resolution *)
(* of promises and foreign thenables, the reaction lists guarded by the    *)
(* per-promise RLock, wait and get, and the combinators listPromise and    *)
(* dictPromise with their CountdownLatch.                                  *)
(*                                                                         *)
(* Every thread runs an explicit call stack.  One action is one step of    *)
(* one function of the source; a "with self._cb_lock:" block that makes no *)
(* call is one atomic step guarded by the lock being free or re-entered    *)
(* (the intermediate writes are visible to nobody: lock-free readers only  *)
(* read _state, which is written after value/reason and never reverts).    *)
(* A block that makes calls while holding the lock (done) acquires and     *)
(* releases the lock in separate steps.  Python assertions are enabled.    *)
(***************************************************************************)
EXTENDS Integers, Sequences, FiniteSets, TLC

\* ---------------------------------------------------------------- bounds
NThreads == 2
\* promises that exist in the initial state (all Pending)
NBase == 3
\* top-level API calls made by all client threads together
MaxCalls == 3

Threads == 1..NThreads
\* then(), listPromise(), dictPromise() and _promisify() allocate one promise
\* per call; _promisify is called once by fulfill, and once for every foreign
\* thenable among the MaxArgs inputs of the one listPromise and the one
\* dictPromise call that clients make
MaxArgs == 2
MaxProm == NBase + MaxCalls + 2 * MaxArgs
Proms == 1..MaxProm

\* ---------------------------------------------------- program constants
PENDING == -1
REJECTED == 0
FULFILLED == 1

\* ----------------------------------------------------------------- values
\* Python objects are tagged pairs, so that values of different kinds can be
\* compared: None, plain values, Promise instances, exceptions, lists.
None == <<"none", 0>>
IntV(n) == <<"int", n>>
PromV(p) == <<"prom", p>>
ErrV(s) == <<"err", s>>
ListV(s) == <<"list", s>>
\* a foreign thenable: an object that is no Promise and has a callable done
\* or then (attr). Called with (onFulfilled, onRejected), it makes the calls
\* acts of them, each <<"fulfill", v>> or <<"reject", r>>, and then returns,
\* or raises the exception raises.
ThenableV(attr, acts, raises) ==
    <<"thenable", [attr |-> attr, acts |-> acts, raises |-> raises]>>

AssertionError == ErrV("AssertionError")
TypeError == ErrV("TypeError")
AttributeError == ErrV("AttributeError")
\* an exception raised by user code (a reaction or a then handler)
UserError == ErrV("UserError")

\* a then() handler: absent, a non-callable value, a function returning a
\* value, a function raising
NoH == <<"none", None>>
\* a closure or bound method: k names the code, p the object it is bound to
NoC == [k |-> "None", p |-> 0, h |-> NoH]
Bound(k, p) == [k |-> k, p |-> p, h |-> NoH]
Closure(k, p, h) == [k |-> k, p |-> p, h |-> h]

VARIABLES
    state, value, reason, callbacks, errbacks, cb_lock, nprom,
    stack, exc, retv, cur, calls, fired, ev, count

vars == <<state, value, reason, callbacks, errbacks, cb_lock, nprom,
          stack, exc, retv, cur, calls, fired, ev, count>>

promVars == <<state, value, reason, callbacks, errbacks>>

\* ------------------------------------------------------------ call stack
Frame(fn, self, x) ==
    [fn |-> fn, pc |-> "start", self |-> self, x |-> x,
     f |-> NoC, g |-> NoC, seq |-> <<>>, i |-> 0, q |-> 0]

Top(t) == stack[t][Len(stack[t])]
At(t, fn, pc) == /\ stack[t] # <<>>
                 /\ Top(t).fn = fn
                 /\ Top(t).pc = pc
Pop(s) == SubSeq(s, 1, Len(s) - 1)
Push(s, fr) == Append(s, fr)
SetTop(s, fr) == [s EXCEPT ![Len(s)] = fr]

\* f(arg): the frame that runs closure f on arg
Invoke(f, arg) == [Frame(f.k, f.p, arg) EXCEPT !.f = f]

\* ------------------------------------------------------------------ lock
\* threading.RLock: free, or owned (possibly several times) by one thread
CanAcquire(t, p) == cb_lock[p].owner \in {0, t}
Acquired(t, p) == [cb_lock EXCEPT ![p] = [owner |-> t, count |-> @.count + 1]]
Released(t, p) ==
    [cb_lock EXCEPT ![p] = IF @.count = 1 THEN [owner |-> 0, count |-> 0]
                           ELSE [owner |-> t, count |-> @.count - 1]]

\* ------------------------------------------------------- module functions
_isFunction(h) == h[1] \in {"ret", "raise"}
\* isinstance(obj, Promise)
IsPromiseInstance(x) == x[1] = "prom"
\* line 298-300: a Promise, or an object with a callable done or then
_isPromise(x) == x[1] \in {"prom", "thenable"}
\* line 304-305: a Promise is returned as it is
_promisify(x) == x[2]

\* ------------------------------------------------------ Promise.__init__
Init ==
    /\ state = [p \in Proms |-> PENDING]
    /\ value = [p \in Proms |-> None]
    /\ reason = [p \in Proms |-> None]
    /\ callbacks = [p \in Proms |-> ListV(<<>>)]
    /\ errbacks = [p \in Proms |-> ListV(<<>>)]
    /\ cb_lock = [p \in Proms |-> [owner |-> 0, count |-> 0]]
    /\ nprom = NBase
    /\ stack = [t \in Threads |-> <<>>]
    /\ exc = [t \in Threads |-> None]
    /\ retv = [t \in Threads |-> None]
    /\ cur = [t \in Threads |-> 0]
    /\ calls = <<>>
    /\ fired = <<>>
    /\ ev = {}
    /\ count = [p \in Proms |-> 0]

\* ------------------------------------------------------- Promise.fulfill
\* line 68-69: fulfilling a promise with itself raises TypeError to the caller
fulfill_self(t) ==
    /\ At(t, "fulfill", "start")
    /\ Top(t).x = PromV(Top(t).self)
    /\ stack' = [stack EXCEPT ![t] = Pop(@)]
    /\ exc' = [exc EXCEPT ![t] = TypeError]
    /\ UNCHANGED <<promVars, cb_lock, nprom, retv, cur, calls, fired, ev, count>>

\* fulfill with the rejection of x not subscribed to: done(self.fulfill)
fulfill_promise_noreject(t) ==
    /\ At(t, "fulfill", "start")
    /\ Top(t).x # PromV(Top(t).self)
    /\ _isPromise(Top(t).x)
    /\ IsPromiseInstance(Top(t).x)
    /\ LET me == Top(t)
           d == [Frame("done", _promisify(me.x), None) EXCEPT
                    !.f = Bound("fulfill", me.self)]
       IN stack' = [stack EXCEPT
                       ![t] = Push(SetTop(@, [me EXCEPT !.pc = "try"]), d)]
    /\ UNCHANGED <<promVars, cb_lock, nprom, exc, retv, cur, calls, fired, ev, count>>

\* line 70-72: x is a Promise: subscribe self to it
fulfill_promise(t) ==
    /\ At(t, "fulfill", "start")
    /\ Top(t).x # PromV(Top(t).self)
    /\ _isPromise(Top(t).x)
    /\ IsPromiseInstance(Top(t).x)
    /\ LET me == Top(t)
           d == [Frame("done", _promisify(me.x), None) EXCEPT
                    !.f = Bound("fulfill", me.self),
                    !.g = Bound("reject", me.self)]
       IN stack' = [stack EXCEPT
                       ![t] = Push(SetTop(@, [me EXCEPT !.pc = "try"]), d)]
    /\ UNCHANGED <<promVars, cb_lock, nprom, exc, retv, cur, calls, fired, ev, count>>

\* line 70-72: x is a foreign thenable: _promisify(x) is called first
fulfill_thenable(t) ==
    /\ At(t, "fulfill", "start")
    /\ _isPromise(Top(t).x)
    /\ ~IsPromiseInstance(Top(t).x)
    /\ stack' = [stack EXCEPT ![t] =
           Push(SetTop(@, [Top(t) EXCEPT !.pc = "promisified"]),
                Frame("_promisify", 0, Top(t).x))]
    /\ UNCHANGED <<promVars, cb_lock, nprom, exc, retv, cur, calls, fired, ev, count>>

\* fulfill without the try of line 71: what _promisify raises leaves fulfill
fulfill_promisified_notry(t) ==
    /\ At(t, "fulfill", "promisified")
    /\ LET me == Top(t)
           d == [Frame("done", me.q, None) EXCEPT
                    !.f = Bound("fulfill", me.self),
                    !.g = Bound("reject", me.self)]
       IN stack' = [stack EXCEPT ![t] =
              IF exc[t] = None
              THEN Push(SetTop(@, [me EXCEPT !.pc = "try"]), d)
              ELSE Pop(@)]
    /\ UNCHANGED <<promVars, cb_lock, nprom, exc, retv, cur, calls, fired, ev, count>>

\* line 72-74: .done(self.fulfill, self.reject) on the promise _promisify
\* returned; an exception of _promisify becomes self.reject(e)
fulfill_promisified(t) ==
    /\ At(t, "fulfill", "promisified")
    /\ LET me == Top(t)
           d == [Frame("done", me.q, None) EXCEPT
                    !.f = Bound("fulfill", me.self),
                    !.g = Bound("reject", me.self)]
       IN IF exc[t] = None
          THEN /\ stack' = [stack EXCEPT
                      ![t] = Push(SetTop(@, [me EXCEPT !.pc = "try"]), d)]
               /\ exc' = exc
          ELSE /\ stack' = [stack EXCEPT
                      ![t] = SetTop(@, Frame("reject", me.self, exc[t]))]
               /\ exc' = [exc EXCEPT ![t] = None]
    /\ UNCHANGED <<promVars, cb_lock, nprom, retv, cur, calls, fired, ev, count>>

\* line 73-74: an exception of the subscription becomes self.reject(e)
fulfill_try(t) ==
    /\ At(t, "fulfill", "try")
    /\ IF exc[t] = None
       THEN /\ stack' = [stack EXCEPT ![t] = Pop(@)]
            /\ exc' = exc
       ELSE /\ stack' = [stack EXCEPT
                   ![t] = SetTop(@, Frame("reject", Top(t).self, exc[t]))]
            /\ exc' = [exc EXCEPT ![t] = None]
    /\ UNCHANGED <<promVars, cb_lock, nprom, retv, cur, calls, fired, ev, count>>

\* line 81-82: a plain value settles the promise
fulfill_plain(t) ==
    /\ At(t, "fulfill", "start")
    /\ ~_isPromise(Top(t).x)
    /\ stack' = [stack EXCEPT
            ![t] = SetTop(@, Frame("_fulfill", Top(t).self, Top(t).x))]
    /\ UNCHANGED <<promVars, cb_lock, nprom, exc, retv, cur, calls, fired, ev, count>>

\* ------------------------------------------------------------ _promisify
\* line 306-313: p = Promise(); obj.done(p.fulfill, p.reject), or obj.then
\* if obj has no done
_promisify_thenable(t) ==
    /\ At(t, "_promisify", "start")
    /\ LET me == Top(t)
           p == nprom + 1
       IN /\ nprom' = p
          /\ stack' = [stack EXCEPT ![t] =
                 Push(SetTop(@, [me EXCEPT !.pc = "ret", !.self = p]),
                      [Frame("thenable", p, me.x) EXCEPT
                          !.f = Bound("fulfill", p),
                          !.g = Bound("reject", p),
                          !.i = 1])]
    /\ UNCHANGED <<promVars, cb_lock, exc, retv, cur, calls, fired, ev, count>>

\* the done or then of the foreign object: it calls onFulfilled or
\* onRejected as its acts say, lets what they raise pass, and in the end
\* returns or raises
thenable(t) ==
    /\ At(t, "thenable", "start")
    /\ LET me == Top(t)
           b == me.x[2]
       IN IF exc[t] # None
          THEN /\ stack' = [stack EXCEPT ![t] = Pop(@)]
               /\ exc' = exc
          ELSE IF me.i <= Len(b.acts)
          THEN /\ stack' = [stack EXCEPT ![t] =
                      Push(SetTop(@, [me EXCEPT !.i = @ + 1]),
                           Invoke(IF b.acts[me.i][1] = "fulfill"
                                  THEN me.f ELSE me.g,
                                  b.acts[me.i][2]))]
               /\ exc' = exc
          ELSE /\ stack' = [stack EXCEPT ![t] = Pop(@)]
               /\ exc' = [exc EXCEPT ![t] = b.raises]
    /\ UNCHANGED <<promVars, cb_lock, nprom, retv, cur, calls, fired, ev, count>>

\* line 309, 313: return p, to the frame that called _promisify
_promisify_ret(t) ==
    /\ At(t, "_promisify", "ret")
    /\ LET p == Top(t).self
           rest == Pop(stack[t])
       IN stack' = [stack EXCEPT ![t] =
              IF exc[t] = None
              THEN SetTop(rest, [rest[Len(rest)] EXCEPT !.q = p])
              ELSE rest]
    /\ UNCHANGED <<promVars, cb_lock, nprom, exc, retv, cur, calls, fired, ev, count>>

\* ------------------------------------------------------ Promise._fulfill
\* the assertion left out
AssertPending_off(p) == TRUE

\* line 86 and 112: assert self._state == self.PENDING
AssertPending(p) == state[p] = PENDING

\* line 85-98: the critical section
_fulfill(t) ==
    /\ At(t, "_fulfill", "start")
    /\ CanAcquire(t, Top(t).self)
    /\ LET me == Top(t)
           p == me.self
       IN IF AssertPending(p)
          THEN /\ value' = [value EXCEPT ![p] = me.x]
               /\ state' = [state EXCEPT ![p] = FULFILLED]
               /\ callbacks' = [callbacks EXCEPT ![p] = None]
               /\ stack' = [stack EXCEPT ![t] = SetTop(@,
                      [me EXCEPT !.pc = "loop", !.seq = callbacks[p][2], !.i = 1])]
               /\ exc' = exc
          ELSE /\ stack' = [stack EXCEPT ![t] = Pop(@)]
               /\ exc' = [exc EXCEPT ![t] = AssertionError]
               /\ UNCHANGED <<value, state, callbacks>>
    /\ UNCHANGED <<reason, errbacks, cb_lock, nprom, retv, cur, calls, fired, ev, count>>

\* line 100-105: call every callback, ignoring what it raises
_fulfill_loop(t) ==
    /\ At(t, "_fulfill", "loop")
    /\ LET me == Top(t)
       IN IF me.i <= Len(me.seq)
          THEN stack' = [stack EXCEPT ![t] =
                   Push(SetTop(@, [me EXCEPT !.i = @ + 1]),
                        Invoke(me.seq[me.i], me.x))]
          ELSE stack' = [stack EXCEPT ![t] = Pop(@)]
    /\ exc' = [exc EXCEPT ![t] = None]
    /\ UNCHANGED <<promVars, cb_lock, nprom, retv, cur, calls, fired, ev, count>>

\* -------------------------------------------------------- Promise.reject
\* line 111-124: the critical section
reject(t) ==
    /\ At(t, "reject", "start")
    /\ CanAcquire(t, Top(t).self)
    /\ LET me == Top(t)
           p == me.self
       IN IF AssertPending(p)
          THEN /\ reason' = [reason EXCEPT ![p] = me.x]
               /\ state' = [state EXCEPT ![p] = REJECTED]
               /\ errbacks' = [errbacks EXCEPT ![p] = None]
               /\ stack' = [stack EXCEPT ![t] = SetTop(@,
                      [me EXCEPT !.pc = "loop", !.seq = errbacks[p][2], !.i = 1])]
               /\ exc' = exc
          ELSE /\ stack' = [stack EXCEPT ![t] = Pop(@)]
               /\ exc' = [exc EXCEPT ![t] = AssertionError]
               /\ UNCHANGED <<reason, state, errbacks>>
    /\ UNCHANGED <<value, callbacks, cb_lock, nprom, retv, cur, calls, fired, ev, count>>

\* line 126-131: call every errback, ignoring what it raises
reject_loop(t) ==
    /\ At(t, "reject", "loop")
    /\ LET me == Top(t)
       IN IF me.i <= Len(me.seq)
          THEN stack' = [stack EXCEPT ![t] =
                   Push(SetTop(@, [me EXCEPT !.i = @ + 1]),
                        Invoke(me.seq[me.i], me.x))]
          ELSE stack' = [stack EXCEPT ![t] = Pop(@)]
    /\ exc' = [exc EXCEPT ![t] = None]
    /\ UNCHANGED <<promVars, cb_lock, nprom, retv, cur, calls, fired, ev, count>>

\* --------------------------------------------------- Promise.addCallback
\* addCallback that puts f at the head of the list: self._callbacks.insert(0, f)
addCallback_prepend(t) ==
    /\ At(t, "addCallback", "start")
    /\ CanAcquire(t, Top(t).self)
    /\ LET me == Top(t)
           p == me.self
       IN IF state[p] = PENDING
          THEN /\ callbacks' = [callbacks EXCEPT
                      ![p] = ListV(<<me.f>> \o @[2])]
               /\ stack' = [stack EXCEPT ![t] = Pop(@)]
          ELSE /\ callbacks' = callbacks
               /\ stack' = [stack EXCEPT
                      ![t] = SetTop(@, [me EXCEPT !.pc = "check"])]
    /\ UNCHANGED <<state, value, reason, errbacks, cb_lock, nprom, exc, retv,
                   cur, calls, fired, ev, count>>

\* line 178-181: append under the lock while Pending
addCallback(t) ==
    /\ At(t, "addCallback", "start")
    /\ CanAcquire(t, Top(t).self)
    /\ LET me == Top(t)
           p == me.self
       IN IF state[p] = PENDING
          THEN /\ callbacks' = [callbacks EXCEPT
                      ![p] = ListV(Append(@[2], me.f))]
               /\ stack' = [stack EXCEPT ![t] = Pop(@)]
          ELSE /\ callbacks' = callbacks
               /\ stack' = [stack EXCEPT
                      ![t] = SetTop(@, [me EXCEPT !.pc = "check"])]
    /\ UNCHANGED <<state, value, reason, errbacks, cb_lock, nprom, exc, retv,
                   cur, calls, fired, ev, count>>

\* addCallback with the test of addErrback: self._state == self.REJECTED
addCallback_check_rejected(t) ==
    /\ At(t, "addCallback", "check")
    /\ LET me == Top(t)
           p == me.self
       IN IF state[p] = REJECTED
          THEN stack' = [stack EXCEPT ![t] = SetTop(@, Invoke(me.f, value[p]))]
          ELSE stack' = [stack EXCEPT ![t] = Pop(@)]
    /\ UNCHANGED <<promVars, cb_lock, nprom, exc, retv, cur, calls, fired, ev, count>>

\* line 186-189: already settled: f(self.value), outside the with block
addCallback_check(t) ==
    /\ At(t, "addCallback", "check")
    /\ LET me == Top(t)
           p == me.self
       IN IF state[p] = FULFILLED
          THEN stack' = [stack EXCEPT ![t] = SetTop(@, Invoke(me.f, value[p]))]
          ELSE stack' = [stack EXCEPT ![t] = Pop(@)]
    /\ UNCHANGED <<promVars, cb_lock, nprom, exc, retv, cur, calls, fired, ev, count>>

\* ---------------------------------------------------- Promise.addErrback
\* line 200-203
addErrback(t) ==
    /\ At(t, "addErrback", "start")
    /\ CanAcquire(t, Top(t).self)
    /\ LET me == Top(t)
           p == me.self
       IN IF state[p] = PENDING
          THEN /\ errbacks' = [errbacks EXCEPT
                      ![p] = ListV(Append(@[2], me.f))]
               /\ stack' = [stack EXCEPT ![t] = Pop(@)]
          ELSE /\ errbacks' = errbacks
               /\ stack' = [stack EXCEPT
                      ![t] = SetTop(@, [me EXCEPT !.pc = "check"])]
    /\ UNCHANGED <<state, value, reason, callbacks, cb_lock, nprom, exc, retv,
                   cur, calls, fired, ev, count>>

\* line 208-211
addErrback_check(t) ==
    /\ At(t, "addErrback", "check")
    /\ LET me == Top(t)
           p == me.self
       IN IF state[p] = REJECTED
          THEN stack' = [stack EXCEPT ![t] = SetTop(@, Invoke(me.f, reason[p]))]
          ELSE stack' = [stack EXCEPT ![t] = Pop(@)]
    /\ UNCHANGED <<promVars, cb_lock, nprom, exc, retv, cur, calls, fired, ev, count>>

\* ---------------------------------------------------------- Promise.done
\* line 221-223: take the lock, then self.addCallback(success)
done(t) ==
    /\ At(t, "done", "start")
    /\ CanAcquire(t, Top(t).self)
    /\ LET me == Top(t)
           nxt == SetTop(stack[t], [me EXCEPT !.pc = "failure"])
       IN /\ cb_lock' = Acquired(t, me.self)
          /\ stack' = [stack EXCEPT ![t] =
                 IF me.f # NoC
                 THEN Push(nxt, [Frame("addCallback", me.self, None)
                                     EXCEPT !.f = me.f])
                 ELSE nxt]
    /\ UNCHANGED <<promVars, nprom, exc, retv, cur, calls, fired, ev, count>>

\* line 224-225: self.addErrback(failure), still holding the lock; an
\* exception of addCallback leaves the with block instead
done_failure(t) ==
    /\ At(t, "done", "failure")
    /\ LET me == Top(t)
           nxt == SetTop(stack[t], [me EXCEPT !.pc = "exit"])
       IN IF exc[t] = None /\ me.g # NoC
          THEN /\ stack' = [stack EXCEPT ![t] =
                      Push(nxt, [Frame("addErrback", me.self, None)
                                     EXCEPT !.f = me.g])]
               /\ cb_lock' = cb_lock
          ELSE /\ stack' = [stack EXCEPT ![t] = Pop(@)]
               /\ cb_lock' = Released(t, me.self)
    /\ UNCHANGED <<promVars, nprom, exc, retv, cur, calls, fired, ev, count>>

\* the end of the with block releases the lock, exception or not
done_exit(t) ==
    /\ At(t, "done", "exit")
    /\ stack' = [stack EXCEPT ![t] = Pop(@)]
    /\ cb_lock' = Released(t, Top(t).self)
    /\ UNCHANGED <<promVars, nprom, exc, retv, cur, calls, fired, ev, count>>

\* ---------------------------------------------------------- Promise.then
\* A handler passed to then(): absent (None), a non-callable value, a
\* function returning a value, a function raising.
Ret(v) == <<"ret", v>>
Raise(e) == <<"raise", e>>
NonCallable == <<"val", IntV(0)>>

\* the record of one invocation of user code: a reaction or a then handler
\* by names the function that made the call: the dispatch loop of _fulfill or
\* reject, or whoever called addCallback or addErrback on a settled promise
Caller(t) ==
    IF Len(stack[t]) > 1 THEN stack[t][Len(stack[t]) - 1].fn ELSE "client"
Fired(k, id, arg, t) ==
    [k |-> k, id |-> id, arg |-> arg, t |-> t, by |-> Caller(t)]

\* line 252-280: ret = Promise(); self.done(callAndFulfill, callAndReject)
then(t) ==
    /\ At(t, "then", "start")
    /\ LET me == Top(t)
           ret == nprom + 1
           d == [Frame("done", me.self, None) EXCEPT
                    !.f = Closure("callAndFulfill", ret, me.f.h),
                    !.g = Closure("callAndReject", ret, me.g.h)]
       IN /\ nprom' = ret
          /\ stack' = [stack EXCEPT ![t] =
                 Push(SetTop(@, [me EXCEPT !.pc = "ret", !.i = ret]), d)]
    /\ UNCHANGED <<promVars, cb_lock, exc, retv, cur, calls, fired, ev, count>>

\* line 282: return ret
then_ret(t) ==
    /\ At(t, "then", "ret")
    /\ stack' = [stack EXCEPT ![t] = Pop(@)]
    /\ retv' = [retv EXCEPT ![t] =
           IF exc[t] = None THEN PromV(Top(t).i) ELSE @]
    /\ UNCHANGED <<promVars, cb_lock, nprom, exc, cur, calls, fired, ev, count>>

\* line 259-263 (success) and 272-276 (failure): the try body of the
\* reaction then() registers. The handler is called if it is a function; what
\* it returns goes to ret.fulfill, what it raises to ret.reject (line 264-265,
\* 277-278); without a handler the outcome is passed on, by `other`.
CallHandler(t, side, other) ==
    LET me == Top(t)
        h == me.f.h
        ret == me.self
        wait == SetTop(stack[t], [me EXCEPT !.pc = "try"])
    IN IF _isFunction(h)
       THEN /\ fired' = Append(fired, Fired(side, ret, me.x, t))
            /\ stack' = [stack EXCEPT ![t] =
                   IF h[1] = "ret"
                   THEN Push(wait, Frame("fulfill", ret, h[2]))
                   ELSE SetTop(@, Frame("reject", ret, h[2]))]
       ELSE /\ fired' = fired
            /\ stack' = [stack EXCEPT ![t] = Push(wait, Frame(other, ret, me.x))]

\* callAndFulfill that calls the handler and passes v on: ret.fulfill(v)
callAndFulfill_passes(t) ==
    /\ At(t, "callAndFulfill", "start")
    /\ LET me == Top(t)
       IN /\ fired' = IF _isFunction(me.f.h)
                      THEN Append(fired, Fired("success", me.self, me.x, t))
                      ELSE fired
          /\ stack' = [stack EXCEPT ![t] =
                 Push(SetTop(@, [me EXCEPT !.pc = "try"]),
                      Frame("fulfill", me.self, me.x))]
    /\ UNCHANGED <<promVars, cb_lock, nprom, exc, retv, cur, calls, ev, count>>

\* callAndReject that passes a reason on with ret.fulfill(r)
callAndReject_fulfills(t) ==
    /\ At(t, "callAndReject", "start")
    /\ CallHandler(t, "failure", "fulfill")
    /\ UNCHANGED <<promVars, cb_lock, nprom, exc, retv, cur, calls, ev, count>>

\* line 254-263
callAndFulfill(t) ==
    /\ At(t, "callAndFulfill", "start")
    /\ CallHandler(t, "success", "fulfill")
    /\ UNCHANGED <<promVars, cb_lock, nprom, exc, retv, cur, calls, ev, count>>

\* line 267-276
callAndReject(t) ==
    /\ At(t, "callAndReject", "start")
    /\ CallHandler(t, "failure", "reject")
    /\ UNCHANGED <<promVars, cb_lock, nprom, exc, retv, cur, calls, ev, count>>

\* line 264-265 and 277-278: except Exception as e: ret.reject(e)
callAnd_try(t) ==
    /\ \/ At(t, "callAndFulfill", "try")
       \/ At(t, "callAndReject", "try")
    /\ IF exc[t] = None
       THEN /\ stack' = [stack EXCEPT ![t] = Pop(@)]
            /\ exc' = exc
       ELSE /\ stack' = [stack EXCEPT
                   ![t] = SetTop(@, Frame("reject", Top(t).self, exc[t]))]
            /\ exc' = [exc EXCEPT ![t] = None]
    /\ UNCHANGED <<promVars, cb_lock, nprom, retv, cur, calls, fired, ev, count>>

\* ------------------------------------------------------- user reactions
\* a function given to addCallback, addErrback or done: it is called with the
\* value or reason, and returns or raises
reaction(t) ==
    /\ At(t, "reaction", "start")
    /\ LET me == Top(t)
       IN /\ fired' = Append(fired, Fired("reaction", me.self, me.x, t))
          /\ exc' = [exc EXCEPT ![t] =
                 IF me.f.h[1] = "raise" THEN me.f.h[2] ELSE @]
    /\ stack' = [stack EXCEPT ![t] = Pop(@)]
    /\ UNCHANGED <<promVars, cb_lock, nprom, retv, cur, calls, ev, count>>

\* ----------------------------------------------------------- Promise.wait
\* line 162-167: the lock-free check, then e = Event() and the two reactions
wait(t) ==
    /\ At(t, "wait", "start")
    /\ LET me == Top(t)
       IN IF state[me.self] # PENDING
          THEN stack' = [stack EXCEPT ![t] = Pop(@)]
          ELSE stack' = [stack EXCEPT ![t] =
                   Push(SetTop(@, [me EXCEPT !.pc = "errback"]),
                        [Frame("addCallback", me.self, None)
                             EXCEPT !.f = Bound("set", me.i)])]
    /\ UNCHANGED <<promVars, cb_lock, nprom, exc, retv, cur, calls, fired, ev, count>>

\* wait without the rejection reaction: only addCallback is registered
wait_errback_skip(t) ==
    /\ At(t, "wait", "errback")
    /\ stack' = [stack EXCEPT ![t] = SetTop(@, [Top(t) EXCEPT !.pc = "block"])]
    /\ UNCHANGED <<promVars, cb_lock, nprom, exc, retv, cur, calls, fired, ev, count>>

\* line 167: self.addErrback(lambda r: e.set())
wait_errback(t) ==
    /\ At(t, "wait", "errback")
    /\ LET me == Top(t)
       IN stack' = [stack EXCEPT ![t] =
              Push(SetTop(@, [me EXCEPT !.pc = "block"]),
                   [Frame("addErrback", me.self, None)
                        EXCEPT !.f = Bound("set", me.i)])]
    /\ UNCHANGED <<promVars, cb_lock, nprom, exc, retv, cur, calls, fired, ev, count>>

\* line 168: e.wait(timeout) returns when the event is set, or, with a
\* timeout, when the time has passed
wait_block(t) ==
    /\ At(t, "wait", "block")
    /\ Top(t).i \in ev \/ Top(t).x # None
    /\ stack' = [stack EXCEPT ![t] = Pop(@)]
    /\ UNCHANGED <<promVars, cb_lock, nprom, exc, retv, cur, calls, fired, ev, count>>

\* lambda v: e.set()
set(t) ==
    /\ At(t, "set", "start")
    /\ ev' = ev \cup {Top(t).self}
    /\ stack' = [stack EXCEPT ![t] = Pop(@)]
    /\ UNCHANGED <<promVars, cb_lock, nprom, exc, retv, cur, calls, fired, count>>

\* ------------------------------------------------------------ Promise.get
ValueError == ErrV("ValueError")

\* line 147: self.wait(timeout)
get(t) ==
    /\ At(t, "get", "start")
    /\ LET me == Top(t)
       IN stack' = [stack EXCEPT ![t] =
              Push(SetTop(@, [me EXCEPT !.pc = "after"]),
                   [Frame("wait", me.self, me.x) EXCEPT !.i = me.i])]
    /\ UNCHANGED <<promVars, cb_lock, nprom, exc, retv, cur, calls, fired, ev, count>>

\* get that only fails on a Rejected promise: if self._state != self.REJECTED
get_after_unless_rejected(t) ==
    /\ At(t, "get", "after")
    /\ LET p == Top(t).self
       IN IF exc[t] # None
          THEN UNCHANGED <<exc, retv>>
          ELSE IF state[p] # REJECTED
               THEN /\ retv' = [retv EXCEPT ![t] = value[p]]
                    /\ exc' = exc
               ELSE /\ exc' = [exc EXCEPT ![t] = ValueError]
                    /\ retv' = retv
    /\ stack' = [stack EXCEPT ![t] = Pop(@)]
    /\ UNCHANGED <<promVars, cb_lock, nprom, cur, calls, fired, ev, count>>

\* line 148-151
get_after(t) ==
    /\ At(t, "get", "after")
    /\ LET p == Top(t).self
       IN IF exc[t] # None
          THEN UNCHANGED <<exc, retv>>
          ELSE IF state[p] = FULFILLED
               THEN /\ retv' = [retv EXCEPT ![t] = value[p]]
                    /\ exc' = exc
               ELSE /\ exc' = [exc EXCEPT ![t] = ValueError]
                    /\ retv' = retv
    /\ stack' = [stack EXCEPT ![t] = Pop(@)]
    /\ UNCHANGED <<promVars, cb_lock, nprom, cur, calls, fired, ev, count>>

\* ---------------------------------------------------------- CountdownLatch
\* line 11-20: dec() under the latch's lock, as one step; count[r] is the
\* latch of the listPromise or dictPromise call whose result is promise r
dec(r) == count[r] - 1

\* The same dec() step by step, for threads that share latch r. The latch's
\* _lock is held by the thread that is inside the with block of line 12.
InDec(u, r) ==
    \E k \in 1..Len(stack[u]) :
        /\ stack[u][k].fn = "dec" /\ stack[u][k].self = r
        /\ stack[u][k].pc # "start"

\* dec without the lock: the with block is entered at once
dec_enter_nolock(t) ==
    /\ At(t, "dec", "start")
    /\ stack' = [stack EXCEPT ![t] = SetTop(@, [Top(t) EXCEPT !.pc = "assert"])]
    /\ UNCHANGED <<promVars, cb_lock, nprom, exc, retv, cur, calls, fired, ev, count>>

\* line 12: with self._lock
dec_enter(t) ==
    /\ At(t, "dec", "start")
    /\ \A u \in Threads \ {t} : ~InDec(u, Top(t).self)
    /\ stack' = [stack EXCEPT ![t] = SetTop(@, [Top(t) EXCEPT !.pc = "assert"])]
    /\ UNCHANGED <<promVars, cb_lock, nprom, exc, retv, cur, calls, fired, ev, count>>

\* line 13: assert self._count > 0; a failure leaves the with block
dec_assert(t) ==
    /\ At(t, "dec", "assert")
    /\ IF count[Top(t).self] > 0
       THEN /\ stack' = [stack EXCEPT
                   ![t] = SetTop(@, [Top(t) EXCEPT !.pc = "load"])]
            /\ exc' = exc
       ELSE /\ stack' = [stack EXCEPT ![t] = Pop(@)]
            /\ exc' = [exc EXCEPT ![t] = AssertionError]
    /\ UNCHANGED <<promVars, cb_lock, nprom, retv, cur, calls, fired, ev, count>>

\* line 15: self._count -= 1 reads the attribute ...
dec_load(t) ==
    /\ At(t, "dec", "load")
    /\ stack' = [stack EXCEPT ![t] = SetTop(@,
           [Top(t) EXCEPT !.pc = "store", !.i = count[Top(t).self]])]
    /\ UNCHANGED <<promVars, cb_lock, nprom, exc, retv, cur, calls, fired, ev, count>>

\* ... and writes it back, one less
dec_store(t) ==
    /\ At(t, "dec", "store")
    /\ count' = [count EXCEPT ![Top(t).self] = Top(t).i - 1]
    /\ stack' = [stack EXCEPT ![t] = SetTop(@, [Top(t) EXCEPT !.pc = "return"])]
    /\ UNCHANGED <<promVars, cb_lock, nprom, exc, retv, cur, calls, fired, ev>>

\* line 20: return self._count, which leaves the with block
dec_return(t) ==
    /\ At(t, "dec", "return")
    /\ retv' = [retv EXCEPT ![t] = IntV(count[Top(t).self])]
    /\ stack' = [stack EXCEPT ![t] = Pop(@)]
    /\ UNCHANGED <<promVars, cb_lock, nprom, exc, cur, calls, fired, ev, count>>

\* ------------------------------------------------------------ listPromise
\* line 325-326: no argument at all: return Promise.value([])
\* (line 51-55: p = Promise(); p.fulfill(x); return p)
listPromise_empty(t) ==
    /\ At(t, "listPromise", "start")
    /\ Len(Top(t).x[2]) = 0
    /\ LET me == Top(t)
           ret == nprom + 1
       IN /\ nprom' = ret
          /\ stack' = [stack EXCEPT ![t] =
                 Push(SetTop(@, [me EXCEPT !.pc = "ret", !.self = ret]),
                      Frame("fulfill", ret, ListV(<<>>)))]
    /\ UNCHANGED <<promVars, cb_lock, exc, retv, cur, calls, fired, ev, count>>

\* line 328-329: a single list argument is the list of promises
Promises(args) ==
    IF Len(args) = 1 /\ args[1][1] = "list" THEN args[1][2] ELSE args

\* line 328-332: ret = Promise(); counter = CountdownLatch(len(promises))
listPromise(t) ==
    /\ At(t, "listPromise", "start")
    /\ Len(Top(t).x[2]) # 0
    /\ LET me == Top(t)
           ret == nprom + 1
           promises == Promises(me.x[2])
       IN /\ nprom' = ret
          /\ count' = [count EXCEPT ![ret] = Len(promises)]
          /\ stack' = [stack EXCEPT ![t] = SetTop(@,
                 [me EXCEPT !.pc = "loop", !.self = ret, !.i = 1,
                            !.x = ListV(promises)])]
    /\ UNCHANGED <<promVars, cb_lock, exc, retv, cur, calls, fired, ev>>

\* line 339-344: _promisify(p).done(handleSuccess, ret.reject) for each p,
\* then return ret; an exception of done leaves the function. A p that is
\* no Promise goes through the steps of _promisify first.
listPromise_loop(t) ==
    /\ At(t, "listPromise", "loop")
    /\ LET me == Top(t)
           promises == me.x[2]
       IN IF exc[t] = None /\ me.i <= Len(promises)
          THEN /\ stack' = [stack EXCEPT ![t] =
                      IF IsPromiseInstance(promises[me.i])
                      THEN Push(SetTop(@, [me EXCEPT !.i = @ + 1]),
                             [Frame("done", _promisify(promises[me.i]), None)
                                EXCEPT
                                  !.f = Closure("handleSuccess", me.self, me.x),
                                  !.g = Bound("reject", me.self)])
                      ELSE Push(SetTop(@, [me EXCEPT !.pc = "promisified"]),
                                Frame("_promisify", 0, promises[me.i]))]
               /\ retv' = retv
          ELSE /\ stack' = [stack EXCEPT ![t] = Pop(@)]
               /\ retv' = [retv EXCEPT ![t] =
                      IF exc[t] = None THEN PromV(me.self) ELSE @]
    /\ UNCHANGED <<promVars, cb_lock, nprom, exc, cur, calls, fired, ev, count>>

\* line 342: .done(handleSuccess, ret.reject) on the promise _promisify
\* returned; an exception of _promisify leaves the function
listPromise_promisified(t) ==
    /\ At(t, "listPromise", "promisified")
    /\ LET me == Top(t)
       IN stack' = [stack EXCEPT ![t] =
              IF exc[t] = None
              THEN Push(SetTop(@, [me EXCEPT !.pc = "loop", !.i = @ + 1]),
                        [Frame("done", me.q, None) EXCEPT
                            !.f = Closure("handleSuccess", me.self, me.x),
                            !.g = Bound("reject", me.self)])
              ELSE Pop(@)]
    /\ UNCHANGED <<promVars, cb_lock, nprom, exc, retv, cur, calls, fired, ev, count>>

\* line 326: return of Promise.value([])
listPromise_ret(t) ==
    /\ At(t, "listPromise", "ret")
    /\ stack' = [stack EXCEPT ![t] = Pop(@)]
    /\ retv' = [retv EXCEPT ![t] =
           IF exc[t] = None THEN PromV(Top(t).self) ELSE @]
    /\ UNCHANGED <<promVars, cb_lock, nprom, exc, cur, calls, fired, ev, count>>

\* line 335: counter.dec() == 0 (line 13: assert self._count > 0)
handleSuccess(t) ==
    /\ At(t, "handleSuccess", "start")
    /\ LET me == Top(t)
           r == me.self
       IN IF count[r] > 0
          THEN /\ count' = [count EXCEPT ![r] = dec(r)]
               /\ exc' = exc
               /\ stack' = [stack EXCEPT ![t] =
                      IF dec(r) = 0
                      THEN SetTop(@, [me EXCEPT !.pc = "last"])
                      ELSE Pop(@)]
          ELSE /\ count' = count
               /\ exc' = [exc EXCEPT ![t] = AssertionError]
               /\ stack' = [stack EXCEPT ![t] = Pop(@)]
    /\ UNCHANGED <<promVars, cb_lock, nprom, retv, cur, calls, fired, ev>>

\* the values in the reverse of the order of the inputs
Values_reversed(promises) ==
    [i \in 1..Len(promises) |-> value[promises[Len(promises) + 1 - i][2]]]

\* line 336: list(map(lambda p: p.value, promises))
Values(promises) == [i \in 1..Len(promises) |-> value[promises[i][2]]]

\* the objects of the sequence ps all have the attribute value: a Promise
\* has it (line 45), an object that only has done or then does not
HaveValue(ps) == \A i \in 1..Len(ps) : IsPromiseInstance(ps[i])

\* line 336-337: ret.fulfill(value); p.value raises AttributeError for an
\* input p without that attribute
handleSuccess_last(t) ==
    /\ At(t, "handleSuccess", "last")
    /\ LET me == Top(t)
       IN IF HaveValue(me.f.h[2])
          THEN /\ stack' = [stack EXCEPT ![t] = SetTop(@,
                      Frame("fulfill", me.self, ListV(Values(me.f.h[2]))))]
               /\ exc' = exc
          ELSE /\ stack' = [stack EXCEPT ![t] = Pop(@)]
               /\ exc' = [exc EXCEPT ![t] = AttributeError]
    /\ UNCHANGED <<promVars, cb_lock, nprom, retv, cur, calls, fired, ev, count>>

\* ------------------------------------------------------------ dictPromise
\* a dict is the sequence of its items <<key, value>> in insertion order,
\* with distinct keys
DictV(s) == <<"dict", s>>

\* line 354-355: an empty dict: return Promise.value({})
dictPromise_empty(t) ==
    /\ At(t, "dictPromise", "start")
    /\ Len(Top(t).x[2]) = 0
    /\ LET me == Top(t)
           ret == nprom + 1
       IN /\ nprom' = ret
          /\ stack' = [stack EXCEPT ![t] =
                 Push(SetTop(@, [me EXCEPT !.pc = "ret", !.self = ret]),
                      Frame("fulfill", ret, DictV(<<>>)))]
    /\ UNCHANGED <<promVars, cb_lock, exc, retv, cur, calls, fired, ev, count>>

\* line 357-358: ret = Promise(); counter = CountdownLatch(len(m))
dictPromise(t) ==
    /\ At(t, "dictPromise", "start")
    /\ Len(Top(t).x[2]) # 0
    /\ LET me == Top(t)
           ret == nprom + 1
       IN /\ nprom' = ret
          /\ count' = [count EXCEPT ![ret] = Len(me.x[2])]
          /\ stack' = [stack EXCEPT ![t] = SetTop(@,
                 [me EXCEPT !.pc = "loop", !.self = ret, !.i = 1])]
    /\ UNCHANGED <<promVars, cb_lock, exc, retv, cur, calls, fired, ev>>

\* line 369-374: _promisify(p).done(handleSuccess, ret.reject) for each p of
\* m.values(), then return ret; an exception of done leaves the function. A
\* p that is no Promise goes through the steps of _promisify first.
dictPromise_loop(t) ==
    /\ At(t, "dictPromise", "loop")
    /\ LET me == Top(t)
           m == me.x[2]
       IN IF exc[t] = None /\ me.i <= Len(m)
          THEN /\ stack' = [stack EXCEPT ![t] =
                      IF IsPromiseInstance(m[me.i][2])
                      THEN Push(SetTop(@, [me EXCEPT !.i = @ + 1]),
                             [Frame("done", _promisify(m[me.i][2]), None)
                                EXCEPT
                                  !.f = Closure("dictPromise_handleSuccess",
                                                me.self, me.x),
                                  !.g = Bound("reject", me.self)])
                      ELSE Push(SetTop(@, [me EXCEPT !.pc = "promisified"]),
                                Frame("_promisify", 0, m[me.i][2]))]
               /\ retv' = retv
          ELSE /\ stack' = [stack EXCEPT ![t] = Pop(@)]
               /\ retv' = [retv EXCEPT ![t] =
                      IF exc[t] = None THEN PromV(me.self) ELSE @]
    /\ UNCHANGED <<promVars, cb_lock, nprom, exc, cur, calls, fired, ev, count>>

\* line 372: .done(handleSuccess, ret.reject) on the promise _promisify
\* returned; an exception of _promisify leaves the function
dictPromise_promisified(t) ==
    /\ At(t, "dictPromise", "promisified")
    /\ LET me == Top(t)
       IN stack' = [stack EXCEPT ![t] =
              IF exc[t] = None
              THEN Push(SetTop(@, [me EXCEPT !.pc = "loop", !.i = @ + 1]),
                        [Frame("done", me.q, None) EXCEPT
                            !.f = Closure("dictPromise_handleSuccess",
                                          me.self, me.x),
                            !.g = Bound("reject", me.self)])
              ELSE Pop(@)]
    /\ UNCHANGED <<promVars, cb_lock, nprom, exc, retv, cur, calls, fired, ev, count>>

\* line 355: return of Promise.value({})
dictPromise_ret(t) ==
    /\ At(t, "dictPromise", "ret")
    /\ stack' = [stack EXCEPT ![t] = Pop(@)]
    /\ retv' = [retv EXCEPT ![t] =
           IF exc[t] = None THEN PromV(Top(t).self) ELSE @]
    /\ UNCHANGED <<promVars, cb_lock, nprom, exc, cur, calls, fired, ev, count>>

\* line 361: counter.dec() == 0 (line 13: assert self._count > 0)
dictPromise_handleSuccess(t) ==
    /\ At(t, "dictPromise_handleSuccess", "start")
    /\ LET me == Top(t)
           r == me.self
       IN IF count[r] > 0
          THEN /\ count' = [count EXCEPT ![r] = dec(r)]
               /\ exc' = exc
               /\ stack' = [stack EXCEPT ![t] =
                      IF dec(r) = 0
                      THEN SetTop(@, [me EXCEPT !.pc = "last"])
                      ELSE Pop(@)]
          ELSE /\ count' = count
               /\ exc' = [exc EXCEPT ![t] = AssertionError]
               /\ stack' = [stack EXCEPT ![t] = Pop(@)]
    /\ UNCHANGED <<promVars, cb_lock, nprom, retv, cur, calls, fired, ev>>

\* line 362-365: value = {}; for k in m: value[k] = m[k].value
Items(m) == [i \in 1..Len(m) |-> <<m[i][1], value[m[i][2][2]]>>]

\* line 362-367: ret.fulfill(value); m[k].value raises AttributeError for
\* an m[k] without that attribute
dictPromise_handleSuccess_last(t) ==
    /\ At(t, "dictPromise_handleSuccess", "last")
    /\ LET me == Top(t)
           m == me.f.h[2]
       IN IF HaveValue([i \in 1..Len(m) |-> m[i][2]])
          THEN /\ stack' = [stack EXCEPT ![t] = SetTop(@,
                      Frame("fulfill", me.self, DictV(Items(m))))]
               /\ exc' = exc
          ELSE /\ stack' = [stack EXCEPT ![t] = Pop(@)]
               /\ exc' = [exc EXCEPT ![t] = AttributeError]
    /\ UNCHANGED <<promVars, cb_lock, nprom, retv, cur, calls, fired, ev, count>>

\* ------------------------------------------------------- client threads
\* A client thread is any code that holds references to the base promises;
\* calls is the history of its calls of the API, each with the state its
\* promise had when the call began and with the way the call ended.
CallRec(t, op, p, x, hs, hf) ==
    [t |-> t, op |-> op, p |-> p, x |-> x, hs |-> hs, hf |-> hf,
     pre |-> IF p \in Proms THEN state[p] ELSE PENDING,
     out |-> "running", err |-> None, res |-> None]

\* Threads are interchangeable: thread t makes its first call only after
\* thread t-1 has made one.
CanCall(t) ==
    /\ cur[t] = 0
    /\ Len(calls) < MaxCalls
    /\ t = 1 \/ \E c \in 1..Len(calls) : calls[c].t = t - 1

\* the id of the call that begins
NewCall == Len(calls) + 1

Start(t, rec, fr) ==
    /\ calls' = Append(calls, rec)
    /\ cur' = [cur EXCEPT ![t] = NewCall]
    /\ stack' = [stack EXCEPT ![t] = <<fr>>]
    /\ retv' = [retv EXCEPT ![t] = None]

Base == 1..NBase

\* p.fulfill(x) for any p of P and x of X
CallFulfill(t, P, X) ==
    /\ CanCall(t)
    /\ \E p \in P, x \in X :
          Start(t, CallRec(t, "fulfill", p, x, NoH, NoH), Frame("fulfill", p, x))
    /\ UNCHANGED <<promVars, cb_lock, nprom, exc, fired, ev, count>>

\* the reason clients reject promise p with
Reason(p) == <<"reason", p>>

\* p.reject(reason)
CallReject(t, P) ==
    /\ CanCall(t)
    /\ \E p \in P :
          Start(t, CallRec(t, "reject", p, Reason(p), NoH, NoH),
                Frame("reject", p, Reason(p)))
    /\ UNCHANGED <<promVars, cb_lock, nprom, exc, fired, ev, count>>

\* p.then(success, failure) for a pair of handlers of HH
CallThen(t, P, HH) ==
    /\ CanCall(t)
    /\ \E p \in P, hh \in HH :
          Start(t, CallRec(t, "then", p, None, hh[1], hh[2]),
                [Frame("then", p, None) EXCEPT
                    !.f = Closure("success", 0, hh[1]),
                    !.g = Closure("failure", 0, hh[2])])
    /\ UNCHANGED <<promVars, cb_lock, nprom, exc, fired, ev, count>>

\* p.addCallback(f); the reaction f is named by the call that registers it
CallAddCallback(t, P, H) ==
    /\ CanCall(t)
    /\ \E p \in P, h \in H :
          Start(t, CallRec(t, "addCallback", p, None, h, NoH),
                [Frame("addCallback", p, None) EXCEPT
                    !.f = Closure("reaction", NewCall, h)])
    /\ UNCHANGED <<promVars, cb_lock, nprom, exc, fired, ev, count>>

\* p.addErrback(f)
CallAddErrback(t, P, H) ==
    /\ CanCall(t)
    /\ \E p \in P, h \in H :
          Start(t, CallRec(t, "addErrback", p, None, NoH, h),
                [Frame("addErrback", p, None) EXCEPT
                    !.f = Closure("reaction", NewCall, h)])
    /\ UNCHANGED <<promVars, cb_lock, nprom, exc, fired, ev, count>>

\* p.done(success, failure) with two reactions; failure is named by the
\* negated call
CallDone(t, P, H) ==
    /\ CanCall(t)
    /\ \E p \in P, h \in H :
          Start(t, CallRec(t, "done", p, None, h, h),
                [Frame("done", p, None) EXCEPT
                    !.f = Closure("reaction", NewCall, h),
                    !.g = Closure("reaction", 0 - NewCall, h)])
    /\ UNCHANGED <<promVars, cb_lock, nprom, exc, fired, ev, count>>

\* p.wait(timeout); the Event of the call is named by the call
CallWait(t, P, TO) ==
    /\ CanCall(t)
    /\ \E p \in P, timeout \in TO :
          Start(t, CallRec(t, "wait", p, timeout, NoH, NoH),
                [Frame("wait", p, timeout) EXCEPT !.i = NewCall])
    /\ UNCHANGED <<promVars, cb_lock, nprom, exc, fired, ev, count>>

\* p.get(timeout)
CallGet(t, P, TO) ==
    /\ CanCall(t)
    /\ \E p \in P, timeout \in TO :
          Start(t, CallRec(t, "get", p, timeout, NoH, NoH),
                [Frame("get", p, timeout) EXCEPT !.i = NewCall])
    /\ UNCHANGED <<promVars, cb_lock, nprom, exc, fired, ev, count>>

\* listPromise(*args), once
CallListPromise(t, A) ==
    /\ CanCall(t)
    /\ \A c \in 1..Len(calls) : calls[c].op # "listPromise"
    /\ \E args \in A :
          Start(t, CallRec(t, "listPromise", 0, ListV(args), NoH, NoH),
                Frame("listPromise", 0, ListV(args)))
    /\ UNCHANGED <<promVars, cb_lock, nprom, exc, fired, ev, count>>

\* dictPromise(m), once
CallDictPromise(t, D) ==
    /\ CanCall(t)
    /\ \A c \in 1..Len(calls) : calls[c].op # "dictPromise"
    /\ \E m \in D :
          Start(t, CallRec(t, "dictPromise", 0, DictV(m), NoH, NoH),
                Frame("dictPromise", 0, DictV(m)))
    /\ UNCHANGED <<promVars, cb_lock, nprom, exc, fired, ev, count>>

\* latch.dec() on the latch r
CallDec(t, r) ==
    /\ CanCall(t)
    /\ Start(t, CallRec(t, "dec", r, None, NoH, NoH), Frame("dec", r, None))
    /\ UNCHANGED <<promVars, cb_lock, nprom, exc, fired, ev, count>>

\* the call returns to, or raises into, the client
Return(t) ==
    /\ cur[t] # 0
    /\ stack[t] = <<>>
    /\ calls' = [calls EXCEPT ![cur[t]] =
           [@ EXCEPT !.out = IF exc[t] = None THEN "returned" ELSE "raised",
                     !.err = exc[t], !.res = retv[t]]]
    /\ cur' = [cur EXCEPT ![t] = 0]
    /\ exc' = [exc EXCEPT ![t] = None]
    /\ UNCHANGED <<promVars, cb_lock, nprom, stack, retv, fired, ev, count>>

\* ------------------------------------------------------- specifications
\* the steps of fulfill, reject, addCallback, addErrback and done
CoreStep(t) ==
    \/ fulfill_plain(t)
    \/ _fulfill(t) \/ _fulfill_loop(t)
    \/ reject(t) \/ reject_loop(t)
    \/ addCallback(t) \/ addCallback_check(t)
    \/ addErrback(t) \/ addErrback_check(t)
    \/ done(t) \/ done_failure(t) \/ done_exit(t)
    \/ Return(t)

PlainVals == {IntV(1), IntV(2)}

\* Clients settle the base promises with plain values, with each other and
\* with themselves.
NextSettle ==
    \E t \in Threads :
        \/ CoreStep(t)
        \/ fulfill_self(t) \/ fulfill_promise(t) \/ fulfill_try(t)
        \/ CallFulfill(t, Base, PlainVals \cup {PromV(q) : q \in Base})
        \/ CallReject(t, Base)
SpecSettle == Init /\ [][NextSettle]_vars

\* the pairs of handlers given to then(): none, non-callable values,
\* functions returning a plain value or promise 2, functions raising
HandlerPairs ==
    {<<NoH, NoH>>, <<NonCallable, NonCallable>>,
     <<Ret(IntV(3)), Ret(IntV(4))>>, <<Ret(PromV(2)), Ret(PromV(2))>>,
     <<Raise(UserError), Raise(UserError)>>,
     <<NoH, Ret(IntV(4))>>, <<Ret(IntV(3)), NoH>>}

\* Clients chain on promise 1 with then(), and settle promise 1 and the
\* promise 2 that handlers return.
NextThen ==
    \E t \in Threads :
        \/ CoreStep(t)
        \/ fulfill_promise(t) \/ fulfill_try(t)
        \/ then(t) \/ then_ret(t)
        \/ callAndFulfill(t) \/ callAndReject(t) \/ callAnd_try(t)
        \/ CallThen(t, {1}, HandlerPairs)
        \/ CallFulfill(t, {1, 2}, {IntV(1)})
        \/ CallReject(t, {1, 2})
SpecThen == Init /\ [][NextThen]_vars

\* a reaction that returns, a reaction that raises
Reactions == {Ret(None), Raise(UserError)}

\* Clients register reactions on promise 1 and settle it.
NextReact ==
    \E t \in Threads :
        \/ CoreStep(t)
        \/ reaction(t)
        \/ CallAddCallback(t, {1}, Reactions)
        \/ CallAddErrback(t, {1}, Reactions)
        \/ CallDone(t, {1}, Reactions)
        \/ CallFulfill(t, {1}, PlainVals)
        \/ CallReject(t, {1})
SpecReact == Init /\ [][NextReact]_vars

\* listPromise(), listPromise(p...), listPromise([]), listPromise([p...])
\* over at most MaxArgs of the promises 1 and 2
ArgLists == UNION {[1..n -> {PromV(1), PromV(2)}] : n \in 0..MaxArgs}
ArgForms == ArgLists \cup {<<ListV(a)>> : a \in ArgLists}

\* Clients combine promises 1 and 2 with listPromise and fulfill them.
NextList ==
    \E t \in Threads :
        \/ fulfill_plain(t)
        \/ _fulfill(t) \/ _fulfill_loop(t)
        \/ addCallback(t) \/ addCallback_check(t)
        \/ addErrback(t) \/ addErrback_check(t)
        \/ done(t) \/ done_failure(t) \/ done_exit(t)
        \/ Return(t)
        \/ listPromise_empty(t) \/ listPromise(t) \/ listPromise_loop(t)
        \/ listPromise_ret(t) \/ handleSuccess(t) \/ handleSuccess_last(t)
        \/ CallListPromise(t, ArgForms)
        \/ CallFulfill(t, {1}, {IntV(1)})
        \/ CallFulfill(t, {2}, {IntV(2)})
SpecList == Init /\ [][NextList]_vars

\* listPromise(p...) over one or two of the promises 1 and 2
SomeArgs == ArgLists \ {<<>>}

\* Clients combine promises 1 and 2 with listPromise, reject them, and
\* fulfill promise 1.
NextListReject ==
    \E t \in Threads :
        \/ CoreStep(t)
        \/ listPromise(t) \/ listPromise_loop(t)
        \/ handleSuccess(t) \/ handleSuccess_last(t)
        \/ CallListPromise(t, SomeArgs)
        \/ CallFulfill(t, {1}, {IntV(1)})
        \/ CallReject(t, {1, 2})
SpecListReject == Init /\ [][NextListReject]_vars

\* {}, {a: p}, {a: p, b: q} over the promises 1 and 2
Dicts ==
    {<<>>} \cup {<<<<"a", PromV(p)>>>> : p \in {1, 2}}
           \cup {<<<<"a", PromV(p)>>, <<"b", PromV(q)>>>> : p, q \in {1, 2}}

\* Clients combine promises 1 and 2 with dictPromise, fulfill and reject them.
NextDict ==
    \E t \in Threads :
        \/ CoreStep(t)
        \/ dictPromise_empty(t) \/ dictPromise(t) \/ dictPromise_loop(t)
        \/ dictPromise_ret(t)
        \/ dictPromise_handleSuccess(t) \/ dictPromise_handleSuccess_last(t)
        \/ CallDictPromise(t, Dicts)
        \/ CallFulfill(t, {1}, {IntV(1)})
        \/ CallFulfill(t, {2}, {IntV(2)})
        \/ CallReject(t, {1, 2})
SpecDict == Init /\ [][NextDict]_vars

\* wait() and get() without timeout, and with one
Timeouts == {None, IntV(10)}

\* a step of the code that thread t is running
WaitStep(t) ==
    \/ CoreStep(t)
    \/ reaction(t)
    \/ wait(t) \/ wait_errback(t) \/ wait_block(t) \/ set(t)
    \/ get(t) \/ get_after(t)

\* Clients wait for promise 1, settle it, and register reactions on it.
NextWait ==
    \E t \in Threads :
        \/ WaitStep(t)
        \/ CallDone(t, {1}, Reactions)
        \/ CallWait(t, {1}, Timeouts)
        \/ CallGet(t, {1}, Timeouts)
        \/ CallFulfill(t, {1}, {IntV(1)})
        \/ CallReject(t, {1})
SpecWait == Init /\ [][NextWait]_vars

\* every thread that can take a step of its call eventually takes one; a
\* client need not make another call
LiveWait == SpecWait /\ \A t \in Threads : WF_vars(WaitStep(t))

\* Promise.value(1) and Promise.value(2) (line 51-55) are promises 1 and 2,
\* and promise 3 is Pending
InitSettled ==
    /\ state = [p \in Proms |-> IF p \in {1, 2} THEN FULFILLED ELSE PENDING]
    /\ value = [p \in Proms |-> IF p \in {1, 2} THEN IntV(p) ELSE None]
    /\ reason = [p \in Proms |-> None]
    /\ callbacks = [p \in Proms |-> IF p \in {1, 2} THEN None ELSE ListV(<<>>)]
    /\ errbacks = [p \in Proms |-> ListV(<<>>)]
    /\ cb_lock = [p \in Proms |-> [owner |-> 0, count |-> 0]]
    /\ nprom = NBase
    /\ stack = [t \in Threads |-> <<>>]
    /\ exc = [t \in Threads |-> None]
    /\ retv = [t \in Threads |-> None]
    /\ cur = [t \in Threads |-> 0]
    /\ calls = <<>>
    /\ fired = <<>>
    /\ ev = {}
    /\ count = [p \in Proms |-> 0]

\* handlers that return promise 1 or promise 2
ChainPairs ==
    {<<Ret(PromV(1)), Ret(PromV(1))>>, <<Ret(PromV(2)), Ret(PromV(2))>>}

\* Clients chain with then() on the settled promises 1 and 2, with handlers
\* that return promise 1 or 2, and on promise 3, which they reject.
NextChain ==
    \E t \in Threads :
        \/ CoreStep(t)
        \/ fulfill_promise(t) \/ fulfill_try(t)
        \/ then(t) \/ then_ret(t)
        \/ callAndFulfill(t) \/ callAndReject(t) \/ callAnd_try(t)
        \/ CallThen(t, {1, 2}, ChainPairs)
        \/ CallThen(t, {3}, {<<Ret(IntV(3)), Ret(IntV(4))>>})
        \/ CallReject(t, {3})
SpecChain == InitSettled /\ [][NextChain]_vars

\* foreign thenables: raising at once, raising after having called
\* onFulfilled or onRejected, calling one of them and returning, and doing
\* nothing
Thenables ==
    {ThenableV("done", <<>>, UserError),
     ThenableV("then", <<<<"fulfill", IntV(1)>>>>, UserError),
     ThenableV("then", <<<<"reject", Reason(0)>>>>, UserError),
     ThenableV("then", <<<<"fulfill", IntV(1)>>>>, None),
     ThenableV("then", <<>>, None)}

\* Clients fulfill promise 1 with foreign thenables, and promise 2 with one
\* that raises.
NextThenable ==
    \E t \in Threads :
        \/ CoreStep(t)
        \/ fulfill_thenable(t) \/ fulfill_promisified(t) \/ fulfill_try(t)
        \/ _promisify_thenable(t) \/ thenable(t) \/ _promisify_ret(t)
        \/ CallFulfill(t, {1}, Thenables)
        \/ CallFulfill(t, {2}, {ThenableV("then", <<>>, UserError)})
SpecThenable == Init /\ [][NextThenable]_vars

\* a foreign thenable that fulfils with 1, alone, twice, and before and
\* after promise 1
Foreign == ThenableV("then", <<<<"fulfill", IntV(1)>>>>, None)
ForeignLists ==
    {<<Foreign>>, <<Foreign, Foreign>>,
     <<Foreign, PromV(1)>>, <<PromV(1), Foreign>>}
ForeignDicts ==
    {<<<<"a", Foreign>>>>, <<<<"a", PromV(1)>>, <<"b", Foreign>>>>}

\* Clients combine foreign thenables and promise 1 with listPromise and
\* dictPromise, and fulfill promise 1.
NextForeign ==
    \E t \in Threads :
        \/ fulfill_plain(t)
        \/ _fulfill(t) \/ _fulfill_loop(t)
        \/ addCallback(t) \/ addCallback_check(t)
        \/ addErrback(t) \/ addErrback_check(t)
        \/ done(t) \/ done_failure(t) \/ done_exit(t)
        \/ Return(t)
        \/ _promisify_thenable(t) \/ thenable(t) \/ _promisify_ret(t)
        \/ listPromise(t) \/ listPromise_loop(t) \/ listPromise_promisified(t)
        \/ handleSuccess(t) \/ handleSuccess_last(t)
        \/ dictPromise(t) \/ dictPromise_loop(t) \/ dictPromise_promisified(t)
        \/ dictPromise_handleSuccess(t) \/ dictPromise_handleSuccess_last(t)
        \/ CallListPromise(t, ForeignLists)
        \/ CallDictPromise(t, ForeignDicts)
        \/ CallFulfill(t, {1}, {IntV(1)})
SpecForeign == Init /\ [][NextForeign]_vars

\* latch 1 is CountdownLatch(MaxCalls) (line 5-9): the threads make at most
\* as many dec() calls as it counts
InitLatch ==
    /\ state = [p \in Proms |-> PENDING]
    /\ value = [p \in Proms |-> None]
    /\ reason = [p \in Proms |-> None]
    /\ callbacks = [p \in Proms |-> ListV(<<>>)]
    /\ errbacks = [p \in Proms |-> ListV(<<>>)]
    /\ cb_lock = [p \in Proms |-> [owner |-> 0, count |-> 0]]
    /\ nprom = NBase
    /\ stack = [t \in Threads |-> <<>>]
    /\ exc = [t \in Threads |-> None]
    /\ retv = [t \in Threads |-> None]
    /\ cur = [t \in Threads |-> 0]
    /\ calls = <<>>
    /\ fired = <<>>
    /\ ev = {}
    /\ count = [p \in Proms |-> IF p = 1 THEN MaxCalls ELSE 0]

\* Threads call dec() on latch 1.
NextLatch ==
    \E t \in Threads :
        \/ dec_enter(t) \/ dec_assert(t) \/ dec_load(t) \/ dec_store(t)
        \/ dec_return(t)
        \/ CallDec(t, 1)
        \/ Return(t)
SpecLatch == InitLatch /\ [][NextLatch]_vars

\* Clients use every operation of promise 1, and settle promise 2.
NextAll ==
    \E t \in Threads :
        \/ CoreStep(t)
        \/ fulfill_self(t) \/ fulfill_promise(t) \/ fulfill_try(t)
        \/ then(t) \/ then_ret(t)
        \/ callAndFulfill(t) \/ callAndReject(t) \/ callAnd_try(t)
        \/ reaction(t)
        \/ wait(t) \/ wait_errback(t) \/ wait_block(t) \/ set(t)
        \/ get(t) \/ get_after(t)
        \/ CallFulfill(t, {1}, PlainVals \cup {PromV(1), PromV(2)})
        \/ CallFulfill(t, {2}, {IntV(2)})
        \/ CallReject(t, {1})
        \/ CallAddCallback(t, {1}, {Ret(None)})
        \/ CallAddErrback(t, {1}, {Ret(None)})
        \/ CallDone(t, {1}, {Ret(None)})
        \/ CallThen(t, {1}, {<<NoH, NoH>>, <<Ret(IntV(3)), Ret(IntV(4))>>})
        \/ CallWait(t, {1}, {None, IntV(10)})
        \/ CallGet(t, {1}, {None, IntV(10)})
SpecAll == Init /\ [][NextAll]_vars

\* ------------------------------------------------------------ vocabulary
Calls == 1..Len(calls)
Finished(c) == calls[c].out # "running"
Quiescent == \A c \in Calls : Finished(c)

\* the promise that the then or listPromise call c returns: 0 before it is
\* created, and if the call raised
RetOf(c) ==
    IF Finished(c)
    THEN IF calls[c].res[1] = "prom" THEN calls[c].res[2] ELSE 0
    ELSE IF stack[calls[c].t] = <<>> THEN 0
         ELSE IF calls[c].op = "then" THEN stack[calls[c].t][1].i
              ELSE stack[calls[c].t][1].self

\* the invocations of the user code named id
FiredOf(id) == {n \in 1..Len(fired) : fired[n].id = id}

\* ----------------------------------------------------------------- claims
\* C1: the state of a promise only ever changes from Pending to Fulfilled or
\* from Pending to Rejected, and once it is not Pending its value and reason
\* never change again.
C1_SettleOnce ==
    [][\A p \in Proms :
          /\ state'[p] # state[p] =>
                state[p] = PENDING /\ state'[p] \in {FULFILLED, REJECTED}
          /\ state[p] # PENDING =>
                value'[p] = value[p] /\ reason'[p] = reason[p]]_vars

\* promise 1 was settled, another fulfill was attempted on it with another
\* value and has ended, and a then() on it has settled its result
C1_Witness ==
    \E c, d \in Calls :
        /\ calls[c].op = "fulfill" /\ calls[c].p = 1
        /\ calls[c].pre # PENDING
        /\ calls[c].x[1] = "int" /\ calls[c].x # value[1]
        /\ Finished(c)
        /\ calls[d].op = "then" /\ Finished(d)
        /\ RetOf(d) # 0 /\ state[RetOf(d)] # PENDING

\* C2 (the claim as stated): every fulfill or reject call made on a settled
\* promise raises to its caller.
C2_ResettleRaises ==
    \A c \in Calls :
        (calls[c].op \in {"fulfill", "reject"} /\ calls[c].pre # PENDING
            /\ Finished(c))
        => calls[c].out = "raised"

\* C3 (the claim as stated): p.fulfill(p) on a Pending p, with no other call
\* on p, returns with p Rejected by the self-resolution error.
C3_SelfResolutionRejects ==
    \A c \in Calls :
        (/\ calls[c].op = "fulfill"
         /\ calls[c].x = PromV(calls[c].p)
         /\ \A d \in Calls \ {c} : calls[d].p # calls[c].p
         /\ Finished(c))
        => /\ calls[c].out = "returned"
           /\ state[calls[c].p] = REJECTED
           /\ reason[calls[c].p] = TypeError

\* A was fulfilled with the thenable B, and no other call settles A
OnlyLink(A, B) ==
    /\ A # B
    /\ \E c \in Calls :
          /\ calls[c].op = "fulfill" /\ calls[c].p = A /\ calls[c].x = PromV(B)
          /\ \A d \in Calls \ {c} : calls[d].p # A

\* C4: a promise A fulfilled with the thenable B (and settled by nothing
\* else) is Pending while B is Pending, and once the calls have ended A has
\* B's state, value and reason.
C4_Mirror ==
    \A A, B \in 1..NBase :
        OnlyLink(A, B) =>
            /\ state[B] = PENDING => state[A] = PENDING
            /\ state[A] = FULFILLED => state[B] = FULFILLED /\ value[A] = value[B]
            /\ state[A] = REJECTED => state[B] = REJECTED /\ reason[A] = reason[B]
            /\ Quiescent => state[A] = state[B]

\* a chain of three: 1 <- 2 <- 3, and 3 was fulfilled with a plain value
C4_Witness ==
    /\ OnlyLink(1, 2) /\ OnlyLink(2, 3)
    /\ Quiescent
    /\ state[3] = FULFILLED /\ state[1] = FULFILLED
    /\ value[1] = IntV(2)

\* the then call c has no handler that is a function
PassThrough(c) ==
    /\ calls[c].op = "then"
    /\ ~_isFunction(calls[c].hs)
    /\ ~_isFunction(calls[c].hf)

HandlerOutcome(ret, h) ==
    IF h[1] = "ret" /\ _isPromise(h[2])
    THEN LET T == _promisify(h[2])
         IN /\ state[ret] = FULFILLED =>
                 state[T] = FULFILLED /\ value[ret] = value[T]
            /\ state[ret] = REJECTED =>
                 state[T] = REJECTED /\ reason[ret] = reason[T]
            /\ Quiescent => state[ret] = state[T]
    ELSE IF h[1] = "ret"
    THEN /\ state[ret] # REJECTED
         /\ state[ret] = FULFILLED => value[ret] = h[2]
         /\ Quiescent => state[ret] = FULFILLED
    ELSE /\ state[ret] # FULFILLED
         /\ state[ret] = REJECTED => reason[ret] = h[2]
         /\ Quiescent => state[ret] = REJECTED

\* C6: with callable handlers, the promise ret of p.then(onSuccess,
\* onFailure) is settled by the outcome of the handler that matches p's
\* settlement; that handler is invoked at most once, with p's value or
\* reason, and the other handler is never invoked.
C6_Handlers ==
    \A c \in Calls :
        (calls[c].op = "then" /\ RetOf(c) # 0) =>
            LET ret == RetOf(c)
                p == calls[c].p
            IN /\ (state[p] = FULFILLED /\ _isFunction(calls[c].hs)) =>
                     HandlerOutcome(ret, calls[c].hs)
               /\ (state[p] = REJECTED /\ _isFunction(calls[c].hf)) =>
                     HandlerOutcome(ret, calls[c].hf)
               /\ Cardinality(FiredOf(ret)) <= 1
               /\ \A n \in FiredOf(ret) :
                     \/ /\ fired[n].k = "success"
                        /\ state[p] = FULFILLED /\ fired[n].arg = value[p]
                     \/ /\ fired[n].k = "failure"
                        /\ state[p] = REJECTED /\ fired[n].arg = reason[p]

\* the failure handler returned promise 2, which was fulfilled afterwards:
\* ret recovered from the rejection of p with the value of promise 2
C6_Witness ==
    \E c \in Calls :
        /\ calls[c].op = "then" /\ calls[c].hf = Ret(PromV(2))
        /\ Quiescent
        /\ state[1] = REJECTED
        /\ \E n \in FiredOf(RetOf(c)) : fired[n].k = "failure"
        /\ \E d \in Calls : d > c /\ calls[d].op = "fulfill" /\ calls[d].p = 2
        /\ state[RetOf(c)] = FULFILLED /\ value[RetOf(c)] = IntV(1)

\* the thread of n is the one that settled p: it made a call of op on p that
\* did not fail
SettledBy(n, op, p) ==
    \E d \in Calls :
        /\ calls[d].op = op /\ calls[d].p = p
        /\ calls[d].t = fired[n].t
        /\ calls[d].out # "raised"

\* the reaction registered by call c for the outcome st of its promise, which
\* op brings about: it is invoked at most once, only in state st with the
\* value or reason, by the dispatch loop on the settling thread or else on
\* the registering thread, and once the calls have ended it has been invoked
\* exactly once if the promise is in state st
ReactionFiresOnce(c, st, op, loop) ==
    LET p == calls[c].p
    IN /\ Cardinality(FiredOf(c)) <= 1
       /\ \A n \in FiredOf(c) :
             /\ state[p] = st
             /\ fired[n].arg = IF st = FULFILLED THEN value[p] ELSE reason[p]
             /\ IF fired[n].by = loop
                THEN SettledBy(n, op, p)
                ELSE fired[n].by = "client" /\ fired[n].t = calls[c].t
       /\ (Quiescent /\ state[p] = st) => Cardinality(FiredOf(c)) = 1
       /\ state[p] \notin {st, PENDING} => FiredOf(c) = {}

\* C7: a reaction given to addCallback is invoked exactly once with the
\* value if the promise is fulfilled, by the settling thread if it was
\* registered before the settlement and by the registering thread if after,
\* and never if the promise is rejected; symmetrically for addErrback.
C7_ExactlyOnce ==
    \A c \in Calls :
        /\ calls[c].op = "addCallback" =>
              ReactionFiresOnce(c, FULFILLED, "fulfill", "_fulfill")
        /\ calls[c].op = "addErrback" =>
              ReactionFiresOnce(c, REJECTED, "reject", "reject")

\* thread 1 registered a reaction before and one after thread 2 fulfilled
\* the promise: the first was invoked by thread 2, the second by thread 1
C7_Witness ==
    /\ Len(calls) = 3 /\ Quiescent
    /\ calls[1].op = "addCallback" /\ calls[1].t = 1
    /\ calls[2].op = "fulfill" /\ calls[2].t = 2
    /\ calls[3].op = "addCallback" /\ calls[3].t = 1
    /\ \E n \in FiredOf(1) : fired[n].t = 2 /\ fired[n].by = "_fulfill"
    /\ \E n \in FiredOf(3) : fired[n].t = 1 /\ fired[n].by = "client"

\* C8 (the claim as stated): what a reaction raises never reaches the caller
\* of fulfill, reject, addCallback or addErrback.
C8_ReactionErrorsSwallowed ==
    \A c \in Calls :
        (calls[c].op \in {"fulfill", "reject", "addCallback", "addErrback"}
            /\ Finished(c))
        => calls[c].err # UserError

\* the promises the listPromise call c was given
Inputs(c) == Promises(calls[c].x[2])

\* C9 (the claim as stated): listPromise with no promise, as listPromise()
\* or as listPromise([]), returns a promise Fulfilled with the empty list.
C9_EmptyList ==
    \A c \in Calls :
        (calls[c].op = "listPromise" /\ Inputs(c) = <<>> /\ Finished(c))
        => /\ RetOf(c) # 0
           /\ state[RetOf(c)] = FULFILLED
           /\ value[RetOf(c)] = ListV(<<>>)

\* C10: the result of listPromise over one or more promises is never
\* Rejected when no input is, is Fulfilled only when every input is, with the
\* list of the inputs' values in the order of the inputs, and is Fulfilled
\* once the calls have ended with every input fulfilled; the latch then
\* counts the inputs that are not fulfilled.
C10_ListInOrder ==
    \A c \in Calls :
        (calls[c].op = "listPromise" /\ Inputs(c) # <<>> /\ RetOf(c) # 0) =>
            LET ret == RetOf(c)
                ps == Inputs(c)
                all == \A i \in 1..Len(ps) : state[ps[i][2]] = FULFILLED
            IN /\ state[ret] # REJECTED
               /\ state[ret] = FULFILLED =>
                     /\ all
                     /\ value[ret] = ListV([i \in 1..Len(ps) |-> value[ps[i][2]]])
               /\ (Quiescent /\ all) => state[ret] = FULFILLED
               /\ Quiescent =>
                     count[ret] = Cardinality({i \in 1..Len(ps) :
                                                  state[ps[i][2]] # FULFILLED})

\* listPromise(p1, p2) was called first, then p2 was fulfilled, then p1: the
\* result is [value of p1, value of p2]
C10_Witness ==
    /\ Len(calls) = 3 /\ Quiescent
    /\ calls[1].op = "listPromise" /\ calls[1].x = ListV(<<PromV(1), PromV(2)>>)
    /\ calls[2].op = "fulfill" /\ calls[2].p = 2
    /\ calls[3].op = "fulfill" /\ calls[3].p = 1
    /\ calls[2].t # calls[3].t
    /\ state[RetOf(1)] = FULFILLED
    /\ value[RetOf(1)] = ListV(<<IntV(1), IntV(2)>>)

\* the reasons of the inputs of the listPromise call c that are Rejected
RejectedReasons(c) ==
    {reason[Inputs(c)[i][2]] :
        i \in {j \in 1..Len(Inputs(c)) : state[Inputs(c)[j][2]] = REJECTED}}

\* C11 (the claim as stated): listPromise over inputs of which some are
\* rejected, before or after the call, returns a promise that is Rejected
\* with the reason of a rejected input once the calls have ended, and no
\* error reaches the caller of listPromise nor a thread that settles an
\* input that was Pending.
C11_FirstRejectionWins ==
    \A c \in Calls :
        (calls[c].op = "listPromise" /\ Inputs(c) # <<>>) =>
            /\ Finished(c) => calls[c].out = "returned"
            /\ \A d \in Calls :
                  (calls[d].op \in {"fulfill", "reject"}
                      /\ calls[d].pre = PENDING /\ Finished(d)
                      /\ \A e \in Calls \ {d} : calls[e].p # calls[d].p)
                  => calls[d].out = "returned"
            /\ (Quiescent /\ RejectedReasons(c) # {}) =>
                  /\ RetOf(c) # 0
                  /\ state[RetOf(c)] = REJECTED
                  /\ reason[RetOf(c)] \in RejectedReasons(c)


\* the promises of the dict given to the dictPromise call c
DictInputs(c) == [i \in 1..Len(calls[c].x[2]) |-> calls[c].x[2][i][2][2]]

\* the result of the dictPromise call c follows its inputs: it is Fulfilled
\* only when every input is, with the dict of the same keys and the inputs'
\* values, Rejected only with the reason of a rejected input, and settled
\* once the calls have ended unless an input is still Pending
DictResult(c, ret) ==
    LET ps == DictInputs(c)
        m == calls[c].x[2]
        all == \A i \in 1..Len(ps) : state[ps[i]] = FULFILLED
        rejected == {i \in 1..Len(ps) : state[ps[i]] = REJECTED}
    IN /\ state[ret] = FULFILLED =>
             /\ all
             /\ value[ret] = DictV([i \in 1..Len(m) |->
                                       <<m[i][1], value[ps[i]]>>])
       /\ state[ret] = REJECTED =>
             \E i \in rejected : reason[ret] = reason[ps[i]]
       /\ (Quiescent /\ all) => state[ret] = FULFILLED
       /\ (Quiescent /\ rejected # {}) => state[ret] = REJECTED

\* C12 (the claim as stated): dictPromise(m) returns a promise; for an empty
\* m it is Fulfilled with the empty dict, otherwise it is Pending until every
\* promise of m is fulfilled and then Fulfilled with the dict of the keys of
\* m and their promises' values, and Rejected with the reason of a rejected
\* promise of m if there is one.
C12_DictPromise ==
    \A c \in Calls :
        calls[c].op = "dictPromise" =>
            /\ Finished(c) => calls[c].out = "returned" /\ RetOf(c) # 0
            /\ RetOf(c) # 0 => DictResult(c, RetOf(c))


\* the call c is a wait() or get() without timeout
Untimed(c) == calls[c].op \in {"wait", "get"} /\ calls[c].x = None

\* C13: a wait() or get() without timeout on a promise that is settled by
\* another call, at whatever point of the wait, eventually returns; such a
\* get() returns the value if the promise was fulfilled (and only returns
\* once the promise is settled).
C13_NoLostWakeup ==
    /\ \A c \in 1..MaxCalls :
          (c \in Calls /\ Untimed(c) /\ state[calls[c].p] # PENDING)
              ~> (c \in Calls /\ Finished(c))
    /\ [](\A c \in Calls :
             (Untimed(c) /\ Finished(c)) =>
                 /\ state[calls[c].p] # PENDING
                 /\ (calls[c].op = "get" /\ state[calls[c].p] = FULFILLED) =>
                       /\ calls[c].out = "returned"
                       /\ calls[c].res = value[calls[c].p])

\* a get() began on the Pending promise, registered its reactions and was
\* woken through its Event by the fulfill call that another thread made
\* later; it returned the value
C13_Witness ==
    \E c, d \in Calls :
        /\ calls[c].op = "get" /\ Untimed(c) /\ calls[c].pre = PENDING
        /\ c \in ev
        /\ calls[d].op = "fulfill" /\ d > c /\ calls[d].t # calls[c].t
        /\ Finished(c) /\ calls[c].out = "returned"
        /\ calls[c].res = IntV(1)


\* thread t leaves get(): its only frame is the one of get, after wait
\* returned, and the step removes it
LeavesGet(t) == At(t, "get", "after") /\ Len(stack[t]) = 1 /\ stack'[t] = <<>>

\* C14: get(timeout) returns the stored value if and only if the promise is
\* Fulfilled when get looks at it after wait returned, and raises ValueError
\* otherwise, Rejected or still Pending alike; wait(timeout) never raises,
\* and when nothing settles the promise it returns with the promise Pending.
C14_GetAfterWait ==
    /\ [][\A t \in Threads :
             LeavesGet(t) =>
                 LET p == Top(t).self
                 IN IF state[p] = FULFILLED
                    THEN exc'[t] = None /\ retv'[t] = value[p]
                    ELSE exc'[t] = ValueError]_vars
    /\ [](\A c \in Calls :
             /\ (calls[c].op = "get" /\ Finished(c)) =>
                   IF calls[c].out = "returned"
                   THEN /\ state[calls[c].p] = FULFILLED
                        /\ calls[c].res = value[calls[c].p]
                   ELSE calls[c].err = ValueError
             /\ (calls[c].op = "wait" /\ Finished(c)) =>
                   /\ calls[c].out = "returned"
                   /\ (\A d \in Calls :
                          calls[d].op \notin {"fulfill", "reject"})
                      => state[calls[c].p] = PENDING)

\* one thread called get(10) on the Pending promise, which timed out and
\* raised ValueError, then rejected the promise, then called get(10) again,
\* which raised ValueError too
C14_Witness ==
    /\ Len(calls) = 3 /\ Quiescent
    /\ \A c \in Calls : calls[c].t = 1
    /\ calls[1].op = "get" /\ calls[1].x = IntV(10)
    /\ calls[1].out = "raised" /\ calls[1].err = ValueError
    /\ calls[2].op = "reject"
    /\ calls[3].op = "get" /\ calls[3].pre = REJECTED
    /\ calls[3].out = "raised" /\ calls[3].err = ValueError


\* thread t holds the lock of some promise
HoldsLock(t) == \E p \in Proms : cb_lock[p].owner = t

\* C15 (the claim as stated): whenever a reaction registered through
\* addCallback, addErrback or done is executing, the thread that executes it
\* holds no promise's lock.
C15_DispatchWithoutLock ==
    \A t \in Threads : At(t, "reaction", "start") => ~HoldsLock(t)


\* thread t is about to take the lock of promise q: at the head of a with
\* block of q
WantsLock(t, q) ==
    /\ stack[t] # <<>>
    /\ Top(t).fn \in {"_fulfill", "reject", "addCallback", "addErrback", "done"}
    /\ Top(t).pc = "start"
    /\ Top(t).self = q

\* t waits for a lock that u holds
WaitsFor(t, u) == \E q \in Proms : WantsLock(t, q) /\ cb_lock[q].owner = u

\* C16 (the claim as stated): with threads calling then on several promises,
\* some already settled, with handlers that return another promise, no state
\* is reachable in which two threads wait for each other's promise locks.
C16_NoDeadlock ==
    \A t, u \in Threads : t # u => ~(WaitsFor(t, u) /\ WaitsFor(u, t))


\* x is a foreign thenable whose done or then raises
RaisingThenable(x) == x[1] = "thenable" /\ x[2].raises # None

\* C17: p.fulfill(x) with a foreign thenable x whose done or then raises E,
\* on a Pending p that no other call settles, never fulfills p and returns
\* to its caller with p Rejected; p is Rejected with E when x raised before
\* calling onFulfilled or onRejected.
C17_ThenableRaises ==
    \A c \in Calls :
        (/\ calls[c].op = "fulfill"
         /\ RaisingThenable(calls[c].x)
         /\ \A d \in Calls \ {c} : calls[d].p # calls[c].p)
        => LET p == calls[c].p
               b == calls[c].x[2]
           IN /\ state[p] # FULFILLED
              /\ Finished(c) =>
                    /\ calls[c].out = "returned"
                    /\ state[p] = REJECTED
                    /\ b.acts = <<>> => reason[p] = b.raises

\* promise 1 was fulfilled with a thenable that called onFulfilled(1) and
\* then raised: the call returned and promise 1 is Rejected with the error
C17_Witness ==
    \E c \in Calls :
        /\ calls[c].op = "fulfill" /\ calls[c].p = 1
        /\ calls[c].x = ThenableV("then", <<<<"fulfill", IntV(1)>>>>, UserError)
        /\ \A d \in Calls \ {c} : calls[d].p # 1
        /\ Finished(c) /\ calls[c].out = "returned"
        /\ state[1] = REJECTED /\ reason[1] = UserError

\* what the input x of a combinator resolves to
ResolvedValue(x) ==
    IF IsPromiseInstance(x) THEN value[x[2]] ELSE x[2].acts[1][2]

\* C18 (the claim as stated): listPromise and dictPromise over inputs of
\* which some are foreign thenables, all fulfilled, return a promise that is
\* Fulfilled with every input's resolved value once the calls have ended.
C18_ForeignInputs ==
    \A c \in Calls :
        LET xs == IF calls[c].op = "listPromise" THEN Inputs(c)
                  ELSE [i \in 1..Len(calls[c].x[2]) |-> calls[c].x[2][i][2]]
        IN (/\ calls[c].op \in {"listPromise", "dictPromise"}
            /\ \E i \in 1..Len(xs) : ~IsPromiseInstance(xs[i])
            /\ \A i \in 1..Len(xs) :
                  IsPromiseInstance(xs[i]) => state[xs[i][2]] = FULFILLED
            /\ Quiescent)
           => /\ calls[c].out = "returned"
              /\ RetOf(c) # 0
              /\ state[RetOf(c)] = FULFILLED
              /\ value[RetOf(c)] =
                    IF calls[c].op = "listPromise"
                    THEN ListV([i \in 1..Len(xs) |-> ResolvedValue(xs[i])])
                    ELSE DictV([i \in 1..Len(xs) |->
                                   <<calls[c].x[2][i][1], ResolvedValue(xs[i])>>])


\* the dec() calls that have returned
Decs == {c \in Calls : calls[c].op = "dec" /\ Finished(c)}

\* the dec() calls that have written the count
Decremented ==
    {c \in Calls :
        /\ calls[c].op = "dec"
        /\ \/ Finished(c)
           \/ stack[calls[c].t] = <<>>
           \/ At(calls[c].t, "dec", "return")}

\* C19: with at most as many dec() calls as the latch counts, made by
\* concurrent threads, the count never goes below zero, every dec() returns
\* the value its own decrement left, the returned values are pairwise
\* distinct, from N-1 down to 0, and when all N calls have been made exactly
\* one has returned 0.
C19_Latch ==
    /\ count[1] >= 0
    /\ \A t \in Threads :
          At(t, "dec", "return") => count[1] = Top(t).i - 1
    /\ \A c \in Decs :
          /\ calls[c].out = "returned"
          /\ calls[c].res \in {IntV(n) : n \in 0..(MaxCalls - 1)}
    /\ \A c, d \in Decs : c # d => calls[c].res # calls[d].res
    /\ count[1] = MaxCalls - Cardinality(Decremented)
    /\ Cardinality(Decs) = MaxCalls =>
          Cardinality({c \in Decs : calls[c].res = IntV(0)}) = 1

\* all the calls were made, by two threads, and the one that returned 0 was
\* not the last to begin
C19_Witness ==
    /\ Cardinality(Decs) = MaxCalls
    /\ \E c, d \in Decs : calls[c].t # calls[d].t
    /\ \E c \in Decs : c < MaxCalls /\ calls[c].res = IntV(0)
    /\ count[1] = 0


\* the call that registered the reaction named id (done names its rejection
\* reaction by the negated call)
RegisteredBy(id) == IF id < 0 THEN 0 - id ELSE id

\* the reactions that the dispatch loop fn has invoked, in order
Dispatched(fn) ==
    LET byLoop == SelectSeq(fired, LAMBDA e : e.by = fn)
    IN [n \in 1..Len(byLoop) |-> byLoop[n].id]

\* the dispatch loop of thread t, in frame k of its stack, has so far invoked
\* the reactions of its list up to the one it is at, in the order of the list
LoopInOrder(t, k) ==
    LET fr == stack[t][k]
        started == fr.i - 1 - (Len(stack[t]) - k)
    IN Dispatched(fr.fn) = [n \in 1..started |-> fr.seq[n].p]

\* C20: while a reaction of a promise runs the promise is settled and the
\* reaction is given its value or reason; the settling thread invokes the
\* reactions of a list in the order of the list, each at most once, and that
\* is the order in which they were registered.
C20_SettleBeforeDispatchInOrder ==
    /\ \A t \in Threads :
          At(t, "reaction", "start") =>
              LET p == calls[RegisteredBy(Top(t).self)].p
              IN /\ state[p] # PENDING
                 /\ Top(t).x = IF state[p] = FULFILLED THEN value[p]
                               ELSE reason[p]
    /\ \A t \in Threads : \A k \in 1..Len(stack[t]) :
          (stack[t][k].fn \in {"_fulfill", "reject"} /\ stack[t][k].pc = "loop")
              => LoopInOrder(t, k)
    /\ \A m, n \in 1..Len(fired) :
          (m < n /\ fired[m].by = fired[n].by
              /\ fired[m].by \in {"_fulfill", "reject"})
          => /\ fired[m].id # fired[n].id
             /\ LET c == RegisteredBy(fired[m].id)
                    d == RegisteredBy(fired[n].id)
                IN calls[c].t = calls[d].t => c <= d

\* thread 1 registered two reactions, one call after the other, and thread 2
\* fulfilled the promise: its loop invoked the first and then the second
C20_Witness ==
    /\ Len(calls) = 3 /\ Quiescent
    /\ calls[1].op = "addCallback" /\ calls[1].t = 1
    /\ calls[2].op = "addCallback" /\ calls[2].t = 1
    /\ calls[3].op = "fulfill" /\ calls[3].t = 2
    /\ Dispatched("_fulfill") = <<1, 2>>


====
